---- MODULE Spec2Model ----
(***************************************************************************)
(* The voice-agent page (component App): connection state machine, audio   *)
(* capture, playback scheduling and lead record, as a state machine.       *)
(*                                                                         *)
(* One step of the model is one event-loop task of the page together with  *)
(* the microtasks it queues: a click, a getUserMedia settlement, a socket  *)
(* callback, an audioprocess event, an "ended" event, the resumption of a  *)
(* message handler after its awaited decode.                               *)
(*                                                                         *)
(* Every accepted connect attempt gets a number a in 1..MaxAttempts; the   *)
(* media stream, the contexts, the nodes and the remote session created by *)
(* that attempt all carry the number a.  0 stands for null.                *)
(*                                                                         *)
(* Not modelled: the activity log (logs) and the volume meter (volume),    *)
(* which are written but never read by any handler.                        *)
(***************************************************************************)
EXTENDS Integers, Sequences, FiniteSets, TLC

\* ------------------------------------------------------------ bounds
MaxAttempts == 2    \* accepted connect attempts
MaxMsgs     == 3    \* server messages delivered, all sessions together
MaxClock    == 2    \* ticks of the audio clock
MaxLoad     == 4    \* accepted connect attempts plus delivered messages
MaxFrames   == 2    \* captured microphone frames
MaxDuration == 2    \* longest decoded buffer, in clock ticks

\* ------------------------------------------------------------ constants
\* The clock unit is 50 ms, so the 0.05 s scheduling lead is one tick.
Lead == 1

Attempts  == 1..MaxAttempts
Durations == 1..MaxDuration

DISCONNECTED == "DISCONNECTED"
CONNECTING   == "CONNECTING"
CONNECTED    == "CONNECTED"
ERROR        == "ERROR"
ConnectionState == {DISCONNECTED, CONNECTING, CONNECTED, ERROR}

NoError      == "null"
KeyRequired  == "API Key is required."
MicFailed    == "Failed to access microphone. Please allow permissions."
ConnError    == "Connection error occurred. Check console."

\* LeadData / ToolArgs: eight optional string fields.  An object is a function
\* on Fields; Undefined marks a key the object does not have.
Fields == {"name", "company", "email", "role", "useCase", "teamSize",
           "timeline", "summary"}
Undefined == "undefined"
EmptyObject == [f \in Fields |-> Undefined]
Keys(o) == {f \in Fields : o[f] # Undefined}

UpdateLeadInfo == "updateLeadInfo"
CrmUpdated == "CRM Updated Successfully"

VARIABLES
    apiKey,                 \* useState apiKey
    connectionState,        \* useState connectionState
    leadData,               \* useState leadData
    isModelSpeaking,        \* useState isModelSpeaking
    errorMsg,               \* useState errorMsg
    inputAudioContextRef,   \* refs: 0 is null, a is the object of attempt a
    outputAudioContextRef,
    mediaStreamRef,
    processorRef,
    sourceRef,
    sessionPromiseRef,
    nextStartTimeRef,       \* playback cursor, in ticks
    scheduledSourcesRef,    \* set of buffer source nodes
    \* ---- the environment the page runs in
    clock,                  \* AudioContext.currentTime, in ticks
    browser,                \* live device objects, by attempt number
    gumPending,             \* attempts awaiting getUserMedia
    session,                \* remote session of each attempt
    pendingDecodes,         \* message handlers suspended at await decodeAudioData
    stoppedSources,         \* number of nodes ended by stop() whose "ended"
                            \* event has not fired yet
    reactions,              \* callbacks queued on a pending session promise
    msgCount,               \* server messages delivered so far
    frameCount,             \* frames captured so far
    nAttempts,              \* connect attempts accepted so far
    \* ---- what the page has emitted
    lastPlay,               \* the last operation on the playback state
    sentFrames,             \* sendRealtimeInput calls that reached a session
    toolResponses           \* sendToolResponse calls that reached a session

refs == <<inputAudioContextRef, outputAudioContextRef, mediaStreamRef,
          processorRef, sourceRef>>
playback == <<nextStartTimeRef, scheduledSourcesRef, stoppedSources, lastPlay>>
ui == <<apiKey, connectionState, leadData, isModelSpeaking, errorMsg>>
env == <<clock, gumPending, session, pendingDecodes, reactions, msgCount,
         frameCount, nAttempts>>
vars == <<ui, refs, sessionPromiseRef, playback, env, browser, sentFrames,
          toolResponses>>

\* ------------------------------------------------------------ server messages
\* A function call of a tool-invocation message.
Call(n, a) == [name |-> n, args |-> a]
Only(f, v) == [EmptyObject EXCEPT ![f] = v]

FunctionCallLists ==
    { <<Call(UpdateLeadInfo, Only("name", "Asha"))>>,
      <<Call(UpdateLeadInfo, Only("company", "Acme"))>>,
      <<Call(UpdateLeadInfo, Only("name", "Beta"))>>,
      <<Call(UpdateLeadInfo, EmptyObject)>>,
      <<Call("lookupPricing", Only("name", "Zed"))>>,
      <<Call(UpdateLeadInfo, Only("email", "a@acme.in")),
        Call("lookupPricing", EmptyObject),
        Call(UpdateLeadInfo, [EmptyObject EXCEPT !["name"] = "Asha",
                                                 !["role"] = "CTO"])>> }

\* audio: "none" no inline data, "pcm" a payload, "invalid" a payload that is
\* not base64 (atob throws).
Message(tc, fcs, au, intr) ==
    [hasToolCall |-> tc, functionCalls |-> fcs, audio |-> au, interrupted |-> intr]

Messages ==
    { Message(TRUE, fcs, "none", FALSE) : fcs \in FunctionCallLists }
    \cup { Message(FALSE, <<>>, au, intr) :
             au \in {"pcm", "invalid"}, intr \in BOOLEAN }
    \cup { Message(FALSE, <<>>, "none", TRUE) }

\* ------------------------------------------------------------ initial state
\* lastPlay: op "start" (a buffer of message id scheduled at start, for dur),
\* "interrupt" (the flag of message id handled, cursor left at start) or
\* "stopAudio"; n is the size of the scheduled set the operation found and
\* prev the operation before it.
Play(op, id, start, dur, n, prev) ==
    [op |-> op, id |-> id, start |-> start, dur |-> dur, n |-> n, prev |-> prev]
NoPlay == Play("none", 0, 0, 0, 0, "none")

NoSession == [ws |-> "none", opened |-> FALSE]
NoDevices == [streams |-> {}, inputCtxs |-> {}, sources |-> {},
              processors |-> {}, outputCtxs |-> {}]

Init ==
    /\ apiKey \in {"", "key"}
    /\ connectionState = DISCONNECTED
    /\ leadData = EmptyObject
    /\ isModelSpeaking = FALSE
    /\ errorMsg = NoError
    /\ inputAudioContextRef = 0
    /\ outputAudioContextRef = 0
    /\ mediaStreamRef = 0
    /\ processorRef = 0
    /\ sourceRef = 0
    /\ sessionPromiseRef = 0
    /\ nextStartTimeRef = 0
    /\ scheduledSourcesRef = {}
    /\ clock = 0
    /\ browser = NoDevices
    /\ gumPending = {}
    /\ session = [a \in Attempts |-> NoSession]
    /\ pendingDecodes = {}
    /\ stoppedSources = 0
    /\ reactions = {}
    /\ msgCount = 0
    /\ frameCount = 0
    /\ nAttempts = 0
    /\ lastPlay = NoPlay
    /\ sentFrames = {}
    /\ toolResponses = {}

\* ------------------------------------------------------------ audio teardown
Refs(ms, ic, so, pr, oc) ==
    [mediaStreamRef |-> ms, inputAudioContextRef |-> ic, sourceRef |-> so,
     processorRef |-> pr, outputAudioContextRef |-> oc]
CurrentRefs == Refs(mediaStreamRef, inputAudioContextRef, sourceRef,
                    processorRef, outputAudioContextRef)

\* The devices left live once stopAudio has released what the refs r hold.
Released(b, r) ==
    [streams    |-> b.streams \ {r.mediaStreamRef},
     inputCtxs  |-> b.inputCtxs \ {r.inputAudioContextRef},
     sources    |-> b.sources \ {r.sourceRef},
     processors |-> b.processors \ {r.processorRef},
     outputCtxs |-> b.outputCtxs \ {r.outputAudioContextRef}]

\* A stopAudio that forgets the output context: it neither closes it nor
\* clears its ref.
StopAudioKeepsOutput(r, b) ==
    /\ processorRef' = 0
    /\ sourceRef' = 0
    /\ mediaStreamRef' = 0
    /\ inputAudioContextRef' = 0
    /\ outputAudioContextRef' = r.outputAudioContextRef
    /\ browser' = [Released(b, r) EXCEPT !.outputCtxs = b.outputCtxs]
    /\ stoppedSources' = stoppedSources + Cardinality(scheduledSourcesRef)
    /\ scheduledSourcesRef' = {}
    /\ nextStartTimeRef' = 0
    /\ lastPlay' = Play("stopAudio", 0, 0, 0, Cardinality(scheduledSourcesRef),
                        "none")

\* stopAudio, run when the refs hold r and the live devices are b.
StopAudio(r, b) ==
    /\ processorRef' = 0
    /\ sourceRef' = 0
    /\ mediaStreamRef' = 0
    /\ inputAudioContextRef' = 0
    /\ outputAudioContextRef' = 0
    /\ browser' = Released(b, r)
    /\ stoppedSources' = stoppedSources + Cardinality(scheduledSourcesRef)
    /\ scheduledSourcesRef' = {}
    /\ nextStartTimeRef' = 0
    /\ lastPlay' = Play("stopAudio", 0, 0, 0, Cardinality(scheduledSourcesRef),
                        "none")

\* ------------------------------------------------------------ initializeAudio
\* The refs and devices after the first k of the five acquisitions of attempt a
\* (stream, input context, source node, processor, output context).
Acquired(r, a, k) ==
    Refs(IF k >= 1 THEN a ELSE r.mediaStreamRef,
         IF k >= 2 THEN a ELSE r.inputAudioContextRef,
         IF k >= 3 THEN a ELSE r.sourceRef,
         IF k >= 4 THEN a ELSE r.processorRef,
         IF k >= 5 THEN a ELSE r.outputAudioContextRef)
Created(b, a, k) ==
    [streams    |-> IF k >= 1 THEN b.streams \cup {a} ELSE b.streams,
     inputCtxs  |-> IF k >= 2 THEN b.inputCtxs \cup {a} ELSE b.inputCtxs,
     sources    |-> IF k >= 3 THEN b.sources \cup {a} ELSE b.sources,
     processors |-> IF k >= 4 THEN b.processors \cup {a} ELSE b.processors,
     outputCtxs |-> IF k >= 5 THEN b.outputCtxs \cup {a} ELSE b.outputCtxs]

\* initializeAudio of attempt a runs to its end, and connectToLiveAPI goes on
\* to open the remote session and to store its promise.
InitializeAudioOk(a) ==
    /\ a \in gumPending
    /\ gumPending' = gumPending \ {a}
    /\ mediaStreamRef' = a
    /\ inputAudioContextRef' = a
    /\ sourceRef' = a
    /\ processorRef' = a
    /\ outputAudioContextRef' = a
    /\ browser' = Created(browser, a, 5)
    /\ session' = [session EXCEPT ![a] = [ws |-> "opening", opened |-> FALSE]]
    /\ sessionPromiseRef' = a
    /\ UNCHANGED <<ui, playback, clock, pendingDecodes, reactions, msgCount,
                   frameCount, nAttempts, sentFrames, toolResponses>>

\* A catch that retries the acquisition by itself: the attempt stays pending
\* and the state goes back to CONNECTING.
InitializeAudioFailRetries(a, k) ==
    /\ a \in gumPending
    /\ errorMsg' = MicFailed
    /\ connectionState' = CONNECTING
    /\ StopAudio(Acquired(CurrentRefs, a, k), Created(browser, a, k))
    /\ UNCHANGED <<apiKey, leadData, isModelSpeaking, sessionPromiseRef,
                   clock, gumPending, session, pendingDecodes, reactions,
                   msgCount, frameCount, nAttempts, sentFrames, toolResponses>>

\* initializeAudio of attempt a throws after k acquisitions (k = 0: getUserMedia
\* rejects); the catch of connectToLiveAPI reports it and tears down.
InitializeAudioFail(a, k) ==
    /\ a \in gumPending
    /\ gumPending' = gumPending \ {a}
    /\ errorMsg' = MicFailed
    /\ connectionState' = ERROR
    /\ StopAudio(Acquired(CurrentRefs, a, k), Created(browser, a, k))
    /\ UNCHANGED <<apiKey, leadData, isModelSpeaking, sessionPromiseRef,
                   clock, session, pendingDecodes, reactions, msgCount,
                   frameCount, nAttempts, sentFrames, toolResponses>>

\* ------------------------------------------------------------ connectToLiveAPI
\* The "Call Riya" button is rendered in DISCONNECTED and in ERROR.
ConnectButtonShown == connectionState \in {DISCONNECTED, ERROR}

\* A connect handler that does not look at the key.
KeyNeverMissing == FALSE

\* if (!apiKey)
KeyMissing == apiKey = ""

\* What the bounds have let happen so far.
Load == nAttempts + msgCount

ConnectToLiveAPI ==
    /\ ConnectButtonShown
    /\ IF KeyMissing
       THEN /\ errorMsg' = KeyRequired
            /\ UNCHANGED <<connectionState, gumPending, nAttempts>>
       ELSE /\ nAttempts < MaxAttempts
            /\ Load < MaxLoad
            /\ connectionState' = CONNECTING
            /\ errorMsg' = NoError
            /\ nAttempts' = nAttempts + 1
            /\ gumPending' = gumPending \cup {nAttempts + 1}
    /\ UNCHANGED <<apiKey, leadData, isModelSpeaking, refs, sessionPromiseRef,
                   playback, clock, browser, session, pendingDecodes, reactions,
                   msgCount, frameCount, sentFrames, toolResponses>>

\* ------------------------------------------------------------ handleDisconnect
\* The "End Call" button is rendered in CONNECTING and in CONNECTED.
HandleDisconnect ==
    /\ ~ConnectButtonShown
    /\ StopAudio(CurrentRefs, browser)
    /\ connectionState' = DISCONNECTED
    /\ sessionPromiseRef' = 0
    /\ UNCHANGED <<apiKey, leadData, isModelSpeaking, errorMsg, env,
                   sentFrames, toolResponses>>

\* The key input field.
SetApiKey(k) ==
    /\ apiKey # k
    /\ apiKey' = k
    /\ UNCHANGED <<connectionState, leadData, isModelSpeaking, errorMsg, refs,
                   sessionPromiseRef, playback, env, browser, sentFrames,
                   toolResponses>>

\* ------------------------------------------------------------ sending
\* session.sendRealtimeInput / sendToolResponse on session t: the socket
\* carries it only while it is open.
Carries(t) == session[t].ws = "open"

\* The callbacks queued on the promise of session t run when it resolves.
FramesOf(t) == {r \in reactions : r.kind = "frame" /\ r.to = t}
ToolsOf(t)  == {r \in reactions : r.kind = "tool" /\ r.to = t}

\* ------------------------------------------------------------ socket callbacks
OnOpen(a) ==
    /\ session[a].ws = "opening"
    /\ session' = [session EXCEPT ![a] = [ws |-> "open", opened |-> TRUE]]
    /\ connectionState' = CONNECTED
    /\ reactions' = reactions \ (FramesOf(a) \cup ToolsOf(a))
    /\ sentFrames' = sentFrames \cup {r.sent : r \in FramesOf(a)}
    /\ toolResponses' = toolResponses \cup {r.sent : r \in ToolsOf(a)}
    /\ UNCHANGED <<apiKey, leadData, isModelSpeaking, errorMsg, refs,
                   sessionPromiseRef, playback, clock, browser, gumPending,
                   pendingDecodes, msgCount, frameCount, nAttempts>>

OnClose(a) ==
    /\ session[a].ws \in {"opening", "open", "failed"}
    /\ session' = [session EXCEPT ![a].ws = "closed"]
    /\ connectionState' = DISCONNECTED
    /\ StopAudio(CurrentRefs, browser)
    /\ UNCHANGED <<apiKey, leadData, isModelSpeaking, errorMsg, sessionPromiseRef,
                   clock, gumPending, pendingDecodes, reactions, msgCount,
                   frameCount, nAttempts, sentFrames, toolResponses>>

\* A socket error; the socket's close event is still to come.
OnError(a) ==
    /\ session[a].ws \in {"opening", "open"}
    /\ session' = [session EXCEPT ![a].ws = "failed"]
    /\ errorMsg' = ConnError
    /\ connectionState' = ERROR
    /\ StopAudio(CurrentRefs, browser)
    /\ UNCHANGED <<apiKey, leadData, isModelSpeaking, sessionPromiseRef,
                   clock, gumPending, pendingDecodes, reactions, msgCount,
                   frameCount, nAttempts, sentFrames, toolResponses>>

\* ------------------------------------------------------------ capture
\* An audioprocess event of the processor of attempt p, which fires while its
\* graph (source -> processor -> destination) stands and its context is open.
Capturing(p) ==
    p \in browser.processors /\ p \in browser.sources /\ p \in browser.inputCtxs

SentFrame(n, p, t, ready) == [frame |-> n, from |-> p, to |-> t, ready |-> ready]

OnAudioProcess(p) ==
    /\ Capturing(p)
    /\ frameCount < MaxFrames
    /\ frameCount' = frameCount + 1
    /\ LET n == frameCount + 1
           t == sessionPromiseRef
       IN  IF t = 0
           THEN UNCHANGED <<reactions, sentFrames>>
           ELSE IF session[t].opened
           THEN /\ sentFrames' = IF Carries(t)
                                 THEN sentFrames \cup {SentFrame(n, p, t, TRUE)}
                                 ELSE sentFrames
                /\ UNCHANGED reactions
           ELSE /\ reactions' = reactions \cup
                       {[kind |-> "frame", to |-> t,
                         sent |-> SentFrame(n, p, t, FALSE)]}
                /\ UNCHANGED sentFrames
    /\ UNCHANGED <<ui, refs, sessionPromiseRef, playback, clock, browser,
                   gumPending, session, pendingDecodes, msgCount, nAttempts,
                   toolResponses>>

\* ------------------------------------------------------------ tool calls
\* A merge that replaces the record by the arguments.
MergeReplaces(prev, args) == args

\* setLeadData(prev => ({ ...prev, ...args }))
Merge(prev, args) ==
    [f \in Fields |-> IF args[f] # Undefined THEN args[f] ELSE prev[f]]

\* The lead record after the loop over msg.toolCall.functionCalls.
RECURSIVE ApplyCalls(_, _)
ApplyCalls(prev, fcs) ==
    IF fcs = <<>> THEN prev
    ELSE ApplyCalls(IF Head(fcs).name = UpdateLeadInfo
                    THEN Merge(prev, Head(fcs).args)
                    ELSE prev,
                    Tail(fcs))

\* The identifier the server gave call i of message m.
CallId(m, i) == <<m, i>>

\* The responses array the loop builds, from call i on.
RECURSIVE Responses(_, _, _)
Responses(m, fcs, i) ==
    IF i > Len(fcs) THEN <<>>
    ELSE (IF fcs[i].name = UpdateLeadInfo
          THEN <<[id |-> CallId(m, i), name |-> fcs[i].name,
                  response |-> CrmUpdated]>>
          ELSE <<>>)
         \o Responses(m, fcs, i + 1)

ToolResponse(m, a, t, fcs) ==
    [msg |-> m, from |-> a, to |-> t, functionResponses |-> Responses(m, fcs, 1)]

\* ------------------------------------------------------------ playback
\* The playback state a handler works on.
Playback(cur, sch, stp, spk, last) ==
    [cursor |-> cur, scheduled |-> sch, stopped |-> stp, speaking |-> spk,
     last |-> last]
CurrentPlayback ==
    Playback(nextStartTimeRef, scheduledSourcesRef, stoppedSources,
             isModelSpeaking, lastPlay)

\* ctx.currentTime
CurrentTime == clock

\* A start time that follows the clock and forgets the cursor.
StartTimeAtClock(cur, now) == now

\* A start time that never catches up with the clock.
StartTimeNoCatchUp(cur, now) == cur

\* The start time of a buffer decoded when the cursor is cur.
StartTime(cur, now) == IF cur < now THEN now + Lead ELSE cur

\* A scheduling that does not advance the cursor by the buffer's duration.
ScheduleNoAdvance(pb, h, d) ==
    LET now   == CurrentTime
        start == StartTime(pb.cursor, now)
        src   == [id |-> h.id, from |-> h.from, ctx |-> h.ctx, cut |-> h.cut,
                  start |-> start, dur |-> d]
    IN  [pb EXCEPT !.scheduled = pb.scheduled \cup {src},
                   !.cursor = start,
                   !.last = Play("start", h.id, start, d,
                                 Cardinality(pb.scheduled), pb.last.op)]

\* Lines 206-229: the handler h schedules its buffer, of duration d.
\* A node records the message (id) and session (from) it plays, the context
\* (ctx) it was created on, and whether an interruption was handled while its
\* handler was suspended (cut).
Schedule(pb, h, d) ==
    LET now   == CurrentTime
        start == StartTime(pb.cursor, now)
        src   == [id |-> h.id, from |-> h.from, ctx |-> h.ctx, cut |-> h.cut,
                  start |-> start, dur |-> d]
    IN  [pb EXCEPT !.scheduled = pb.scheduled \cup {src},
                   !.cursor = start + d,
                   !.last = Play("start", h.id, start, d,
                                 Cardinality(pb.scheduled), pb.last.op)]

\* An interruption that stops the nodes and leaves the cursor where it was.
InterruptKeepsCursor(pb, id) ==
    [pb EXCEPT !.scheduled = {},
               !.stopped = pb.stopped + Cardinality(pb.scheduled),
               !.speaking = FALSE,
               !.last = Play("interrupt", id, pb.cursor, 0,
                             Cardinality(pb.scheduled), pb.last.op)]

\* Lines 237-248: the interrupted flag of message id.
Interrupt(pb, id) ==
    LET cur == IF outputAudioContextRef # 0 THEN CurrentTime ELSE pb.cursor
    IN  [pb EXCEPT !.scheduled = {},
                   !.stopped = pb.stopped + Cardinality(pb.scheduled),
                   !.speaking = FALSE,
                   !.cursor = cur,
                   !.last = Play("interrupt", id, cur, 0,
                                 Cardinality(pb.scheduled), pb.last.op)]

SetPlayback(pb) ==
    /\ nextStartTimeRef' = pb.cursor
    /\ scheduledSourcesRef' = pb.scheduled
    /\ stoppedSources' = pb.stopped
    /\ isModelSpeaking' = pb.speaking
    /\ lastPlay' = pb.last

\* The handlers still suspended once an interruption has been handled.
Cut(hs) == {[h EXCEPT !.cut = TRUE] : h \in hs}

\* ------------------------------------------------------------ onmessage
\* The handler of message m of session a, up to its end or to the await of
\* decodeAudioData.
OnMessage(a, m) ==
    /\ session[a].ws = "open"
    /\ msgCount < MaxMsgs
    /\ Load < MaxLoad
    /\ msgCount' = msgCount + 1
    /\ LET id == msgCount + 1
           t  == sessionPromiseRef
           hasAudio  == m.audio # "none" /\ outputAudioContextRef # 0
           suspended == hasAudio /\ m.audio = "pcm"
           interrupt == m.interrupted /\ ~suspended
           pb1 == IF hasAudio
                  THEN [CurrentPlayback EXCEPT !.speaking = TRUE]
                  ELSE CurrentPlayback
           pb2 == IF interrupt THEN Interrupt(pb1, id) ELSE pb1
       IN  /\ leadData' = IF m.hasToolCall
                          THEN ApplyCalls(leadData, m.functionCalls)
                          ELSE leadData
           /\ IF m.hasToolCall /\ t # 0
              THEN IF session[t].opened
                   THEN /\ toolResponses' =
                             IF Carries(t)
                             THEN toolResponses \cup
                                    {ToolResponse(id, a, t, m.functionCalls)}
                             ELSE toolResponses
                        /\ UNCHANGED reactions
                   ELSE /\ reactions' = reactions \cup
                             {[kind |-> "tool", to |-> t,
                               sent |-> ToolResponse(id, a, t, m.functionCalls)]}
                        /\ UNCHANGED toolResponses
              ELSE UNCHANGED <<reactions, toolResponses>>
           /\ pendingDecodes' =
                 IF suspended
                 THEN pendingDecodes \cup
                        {[id |-> id, from |-> a, ctx |-> outputAudioContextRef,
                          interrupted |-> m.interrupted, cut |-> FALSE]}
                 ELSE IF interrupt THEN Cut(pendingDecodes)
                 ELSE pendingDecodes
           /\ SetPlayback(pb2)
    /\ UNCHANGED <<apiKey, connectionState, errorMsg, refs, sessionPromiseRef,
                   clock, browser, gumPending, session, frameCount, nAttempts,
                   sentFrames>>

\* decodeAudioData (utils/audioUtils) is asynchronous: the promise a handler
\* awaits settles in a later task, whatever other handlers are suspended.
CanSettle(h) == h \in pendingDecodes

\* The handler h resumes with a decoded buffer of duration d, schedules it and
\* then looks at its message's interrupted flag.
DecodeResolved(h, d) ==
    /\ CanSettle(h)
    /\ pendingDecodes' = IF h.interrupted
                         THEN Cut(pendingDecodes \ {h})
                         ELSE pendingDecodes \ {h}
    /\ LET pb1 == Schedule(CurrentPlayback, h, d)
           pb2 == IF h.interrupted THEN Interrupt(pb1, h.id) ELSE pb1
       IN  SetPlayback(pb2)
    /\ UNCHANGED <<apiKey, connectionState, leadData, errorMsg, refs,
                   sessionPromiseRef, clock, browser, gumPending, session,
                   reactions, msgCount, frameCount, nAttempts, sentFrames,
                   toolResponses>>

\* A catch that reports the failure to the user as a connection error.
DecodeRejectedSurfaces(h) ==
    /\ CanSettle(h)
    /\ pendingDecodes' = pendingDecodes \ {h}
    /\ errorMsg' = ConnError
    /\ connectionState' = ERROR
    /\ SetPlayback(CurrentPlayback)
    /\ UNCHANGED <<apiKey, leadData, refs, sessionPromiseRef, clock, browser,
                   gumPending, session, reactions, msgCount, frameCount,
                   nAttempts, sentFrames, toolResponses>>

\* The awaited decode of handler h rejects: the catch logs it, and the handler
\* goes on to the interrupted flag.
DecodeRejected(h) ==
    /\ CanSettle(h)
    /\ pendingDecodes' = IF h.interrupted
                         THEN Cut(pendingDecodes \ {h})
                         ELSE pendingDecodes \ {h}
    /\ SetPlayback(IF h.interrupted
                   THEN Interrupt(CurrentPlayback, h.id)
                   ELSE CurrentPlayback)
    /\ UNCHANGED <<apiKey, connectionState, leadData, errorMsg, refs,
                   sessionPromiseRef, clock, browser, gumPending, session,
                   reactions, msgCount, frameCount, nAttempts, sentFrames,
                   toolResponses>>

\* ------------------------------------------------------------ source.onended
\* Lines 221-226, run for the node src.
Ended(pb, src) ==
    LET rest == pb.scheduled \ {src}
    IN  [pb EXCEPT !.scheduled = rest,
                   !.speaking = IF rest = {} THEN FALSE ELSE pb.speaking]

\* A scheduled buffer plays to its end on an open context.
OnEnded(src) ==
    /\ src \in scheduledSourcesRef
    /\ src.ctx \in browser.outputCtxs
    /\ CurrentTime >= src.start + src.dur
    /\ SetPlayback(Ended(CurrentPlayback, src))
    /\ UNCHANGED <<apiKey, connectionState, leadData, errorMsg, refs,
                   sessionPromiseRef, env, browser, sentFrames, toolResponses>>

\* The "ended" event of a node that stop() ended; the node has left the set,
\* so the handler deletes nothing.
OnEndedStopped ==
    /\ stoppedSources > 0
    /\ stoppedSources' = stoppedSources - 1
    /\ isModelSpeaking' = IF scheduledSourcesRef = {} THEN FALSE
                          ELSE isModelSpeaking
    /\ UNCHANGED <<apiKey, connectionState, leadData, errorMsg, refs,
                   sessionPromiseRef, nextStartTimeRef, scheduledSourcesRef,
                   lastPlay, env, browser, sentFrames, toolResponses>>

\* The audio clock advances.
Tick ==
    /\ clock < MaxClock
    /\ clock' = clock + 1
    /\ UNCHANGED <<ui, refs, sessionPromiseRef, playback, browser, gumPending,
                   session, pendingDecodes, reactions, msgCount, frameCount,
                   nAttempts, sentFrames, toolResponses>>

\* ------------------------------------------------------------ specification
ToolMessages  == {m \in Messages : m.hasToolCall}
AudioMessages == {m \in Messages : ~m.hasToolCall}

\* The connection life cycle: the two buttons, device acquisition and the socket
\* callbacks.
Lifecycle ==
    \/ ConnectToLiveAPI
    \/ HandleDisconnect
    \/ \E a \in Attempts : InitializeAudioOk(a)
    \/ \E a \in Attempts, k \in 0..4 : InitializeAudioFail(a, k)
    \/ \E a \in Attempts : OnOpen(a)
    \/ \E a \in Attempts : OnClose(a)
    \/ \E a \in Attempts : OnError(a)

\* Playback: audio and interruption messages, decode completions, "ended"
\* events and the audio clock.
Player ==
    \/ \E a \in Attempts, m \in AudioMessages : OnMessage(a, m)
    \/ \E h \in pendingDecodes, d \in Durations : DecodeResolved(h, d)
    \/ \E h \in pendingDecodes : DecodeRejected(h)
    \/ \E src \in scheduledSourcesRef : OnEnded(src)
    \/ OnEndedStopped
    \/ Tick

\* The life cycle with playback.  Tool-invocation messages and captured frames
\* write only leadData, toolResponses, sentFrames, reactions and their own
\* counters, none of which the life cycle or playback reads.
NextAudio == Lifecycle \/ Player
SpecAudio == Init /\ [][NextAudio]_vars

\* The life cycle with tool-invocation messages.
NextLead ==
    \/ Lifecycle
    \/ \E a \in Attempts, m \in ToolMessages : OnMessage(a, m)
SpecLead == Init /\ [][NextLead]_vars

\* The life cycle with the key field.
NextSession ==
    \/ Lifecycle
    \/ \E k \in {"", "key"} : SetApiKey(k)
SpecSession == Init /\ [][NextSession]_vars

\* The life cycle with microphone capture.
NextCapture ==
    \/ Lifecycle
    \/ \E p \in Attempts : OnAudioProcess(p)
SpecCapture == Init /\ [][NextCapture]_vars

\* ------------------------------------------------------------ claims
\* C1: in every reachable state the speaking indicator is true exactly when
\* the scheduled set is non-empty.
C1_SpeakingIffScheduled == isModelSpeaking <=> scheduledSourcesRef # {}

\* The calls of the list fcs that are updateLeadInfo calls mentioning field f.
Mentions(fcs, f) ==
    {i \in 1..Len(fcs) : fcs[i].name = UpdateLeadInfo /\ fcs[i].args[f] # Undefined}
Last(S) == CHOOSE i \in S : \A j \in S : j <= i

\* C2: the lead merge is additive.  A step that delivers a tool-invocation
\* message leaves in every field the value of the last updateLeadInfo call of
\* the message that mentions it, and the previous value when none does; and no
\* step at all unsets a field that was set.
C2_MergeAdditive ==
    [][ /\ \A a \in Attempts, m \in ToolMessages :
              OnMessage(a, m) =>
                 \A f \in Fields :
                    leadData'[f] =
                       IF Mentions(m.functionCalls, f) = {}
                       THEN leadData[f]
                       ELSE m.functionCalls[Last(Mentions(m.functionCalls, f))].args[f]
        /\ Keys(leadData) \subseteq Keys(leadData') ]_vars

\* C2 witness: three tool messages, {name: Asha} overwritten by {name: Beta}
\* with {company: Acme} kept.
C2_Witness ==
    /\ msgCount = 3
    /\ leadData["name"] = "Beta"
    /\ leadData["company"] = "Acme"
    /\ Keys(leadData) = {"name", "company"}
    /\ Cardinality(toolResponses) = 3

\* The entries, among the responses the step sends to session a, that carry
\* the identifier id.
Acks(a, id) ==
    {<<r, j>> \in (toolResponses' \ toolResponses) \X (1..3) :
        /\ r.to = a
        /\ j \in DOMAIN r.functionResponses
        /\ r.functionResponses[j].id = id}

\* C3: every updateLeadInfo call of a tool-invocation message delivered by
\* session a is answered to session a by exactly one success entry with the
\* call's identifier and name, and a call of another name by none.
C3_EveryCallAcknowledged ==
    [][ \A a \in Attempts, m \in ToolMessages :
           OnMessage(a, m) =>
              \A i \in 1..Len(m.functionCalls) :
                 LET acks == Acks(a, CallId(msgCount + 1, i))
                 IN  IF m.functionCalls[i].name = UpdateLeadInfo
                     THEN /\ Cardinality(acks) = 1
                          /\ \A e \in acks :
                                LET fr == e[1].functionResponses[e[2]]
                                IN  /\ fr.name = UpdateLeadInfo
                                    /\ fr.response = CrmUpdated
                     ELSE acks = {} ]_vars

\* A connect request made in DISCONNECTED with an empty key.
EmptyKeyConnect ==
    connectionState = DISCONNECTED /\ apiKey = "" /\ ConnectToLiveAPI

\* C4 as claimed: a connect request with an empty key made in DISCONNECTED
\* moves the state to ERROR.
C4_EmptyKeyToError ==
    [][ EmptyKeyConnect => connectionState' = ERROR ]_vars

\* C4 as amended: a connect request with an empty key made in DISCONNECTED
\* leaves the state DISCONNECTED and shows the key-required message; it
\* starts no attempt, acquires no device and opens no session.
C4_EmptyKeyStaysDisconnected ==
    [][ EmptyKeyConnect =>
           /\ connectionState' = DISCONNECTED
           /\ errorMsg' = KeyRequired
           /\ nAttempts' = nAttempts
           /\ gumPending' = gumPending
           /\ browser' = browser
           /\ session' = session
           /\ sessionPromiseRef' = sessionPromiseRef ]_vars

\* C4 witness: the key-required message shown in DISCONNECTED after an earlier
\* session, with the key cleared since.
C4_Witness ==
    /\ connectionState = DISCONNECTED
    /\ apiKey = ""
    /\ errorMsg = KeyRequired
    /\ nAttempts = 1
    /\ session[1].ws = "closed"

\* C5: once the state is ERROR or DISCONNECTED, only a connect request changes
\* it, and it changes it to CONNECTING.
C5_TerminalUntilConnect ==
    [][ (connectionState \in {ERROR, DISCONNECTED}
           /\ connectionState' # connectionState)
        => (ConnectToLiveAPI /\ connectionState' = CONNECTING) ]_vars

\* A step that handles an interruption flag, and one that schedules a buffer.
InterruptStep == lastPlay' # lastPlay /\ lastPlay'.op = "interrupt"
StartStep     == lastPlay' # lastPlay /\ lastPlay'.op = "start"

\* C6 as claimed: a step that handles an interruption leaves the scheduled set
\* empty, the indicator false and the cursor at the clock of the output
\* context; and the first buffer scheduled after it starts at that cursor.
C6_NextStartsAtResetCursor ==
    [][ /\ InterruptStep =>
              /\ scheduledSourcesRef' = {}
              /\ ~isModelSpeaking'
              /\ outputAudioContextRef # 0 => nextStartTimeRef' = clock
        /\ (lastPlay.op = "interrupt" /\ StartStep) =>
              lastPlay'.start = lastPlay.start ]_vars

\* C6 as amended: a step that handles an interruption leaves the scheduled set
\* empty, the indicator false and, when an output context is held, the cursor
\* at the clock; the first buffer scheduled after it, with no teardown in
\* between, starts at the cursor the interruption left when the clock has not
\* passed it, and one lead after the clock when it has.
C6_NextStartsFromResetCursor ==
    [][ /\ InterruptStep =>
              /\ scheduledSourcesRef' = {}
              /\ ~isModelSpeaking'
              /\ nextStartTimeRef' = lastPlay'.start
              /\ outputAudioContextRef # 0 => nextStartTimeRef' = clock
        /\ (lastPlay.op = "interrupt" /\ StartStep) =>
              lastPlay'.start = IF lastPlay.start < clock
                                THEN clock + Lead
                                ELSE lastPlay.start ]_vars

\* C6 witness: in the only session, an interruption has stopped at least one
\* buffer, the clock has moved on, and the next buffer has been scheduled one
\* lead after the clock.
C6_Witness ==
    /\ nAttempts = 1
    /\ connectionState = CONNECTED
    /\ stoppedSources >= 1
    /\ lastPlay.op = "start"
    /\ lastPlay.prev = "interrupt"
    /\ lastPlay.start = clock + Lead
    /\ scheduledSourcesRef # {}

\* C7: no buffer of a message delivered before an interruption was handled is
\* in the scheduled set afterwards.
C7_InterruptionTotal == \A s \in scheduledSourcesRef : ~s.cut

\* C8: of two buffers of one session scheduled with no interruption handled
\* since the earlier message arrived, the one that arrived first does not start
\* later.
C8_ArrivalOrder ==
    \A s1, s2 \in scheduledSourcesRef :
        (s1.from = s2.from /\ s1.id < s2.id /\ ~s1.cut /\ ~s2.cut)
            => s1.start <= s2.start

\* C9: a frame captured while its send channel was not ready is neither sent
\* later nor held in a queue.
C9_UnreadyFrameDropped ==
    /\ \A f \in sentFrames : f.ready
    /\ \A r \in reactions : r.kind # "frame"

\* C10: the lead record is empty when a connect request is accepted, and only
\* the delivery of a tool-invocation message changes it.
C10_EmptyAtSessionStart ==
    [][ /\ (ConnectToLiveAPI /\ nAttempts' # nAttempts) => leadData' = EmptyObject
        /\ leadData' # leadData =>
              \E a \in Attempts, m \in ToolMessages : OnMessage(a, m) ]_vars

\* A teardown step: the socket's close or error callback, or End Call.
Closed   == \E a \in Attempts : OnClose(a)
Errored  == \E a \in Attempts : OnError(a)
AllRefsNull ==
    /\ mediaStreamRef = 0
    /\ processorRef = 0
    /\ sourceRef = 0
    /\ inputAudioContextRef = 0
    /\ outputAudioContextRef = 0

\* C11: the step that handles a close event, an error event or End Call leaves
\* the five audio refs null, the devices they held no longer live and the
\* scheduled set empty; close and End Call leave DISCONNECTED, error leaves
\* ERROR with the connection-error message.
C11_TeardownReleases ==
    [][ /\ (Closed \/ Errored \/ HandleDisconnect) =>
              /\ AllRefsNull'
              /\ scheduledSourcesRef' = {}
              /\ mediaStreamRef \notin browser'.streams
              /\ processorRef \notin browser'.processors
              /\ sourceRef \notin browser'.sources
              /\ inputAudioContextRef \notin browser'.inputCtxs
              /\ outputAudioContextRef \notin browser'.outputCtxs
        /\ (Closed \/ HandleDisconnect) => connectionState' = DISCONNECTED
        /\ Errored => (connectionState' = ERROR /\ errorMsg' = ConnError) ]_vars

\* C11 witness: a socket error has torn down a session that had buffers
\* scheduled.
C11_Witness ==
    /\ connectionState = ERROR
    /\ errorMsg = ConnError
    /\ AllRefsNull
    /\ scheduledSourcesRef = {}
    /\ lastPlay.op = "stopAudio"
    /\ lastPlay.n >= 1
    /\ browser = NoDevices

\* Attempt a was accepted, is no longer acquiring and has no session: its
\* acquisition failed.
AcquisitionFailed(a) ==
    a <= nAttempts /\ a \notin gumPending /\ session[a].ws = "none"

\* C12: the step in which the acquisition of attempt a fails leaves ERROR with
\* the microphone message, every device of a released and no session of a; an
\* attempt that failed never gets a session; and the state enters CONNECTING
\* only by an accepted connect request.
C12_AcquisitionFailureFatal ==
    [][ /\ \A a \in Attempts :
              (\E k \in 0..4 : InitializeAudioFail(a, k)) =>
                 /\ connectionState' = ERROR
                 /\ errorMsg' = MicFailed
                 /\ AcquisitionFailed(a)'
                 /\ a \notin browser'.streams \cup browser'.inputCtxs
                           \cup browser'.sources \cup browser'.processors
                           \cup browser'.outputCtxs
                 /\ AllRefsNull'
        /\ \A a \in Attempts : AcquisitionFailed(a) => AcquisitionFailed(a)'
        /\ (connectionState # CONNECTING /\ connectionState' = CONNECTING) =>
              (ConnectToLiveAPI /\ nAttempts' = nAttempts + 1) ]_vars

\* C12 witness: the first attempt failed, and the second, asked for by the
\* user, failed as well.
C12_Witness ==
    /\ connectionState = ERROR
    /\ errorMsg = MicFailed
    /\ nAttempts = 2
    /\ AcquisitionFailed(1)
    /\ AcquisitionFailed(2)
    /\ browser = NoDevices

\* C13: a buffer that is scheduled starts no earlier than the clock; one lead
\* after the clock when the cursor was behind it, at the cursor otherwise.
C13_CatchUp ==
    [][ StartStep =>
           /\ lastPlay'.start >= clock
           /\ lastPlay'.start = IF nextStartTimeRef < clock
                                THEN clock + Lead
                                ELSE nextStartTimeRef ]_vars

\* C13 witness: the first buffer has played to its end, the clock has passed
\* the cursor, and the second buffer starts one lead after the clock.
C13_Witness ==
    /\ lastPlay.op = "start"
    /\ lastPlay.prev = "start"
    /\ lastPlay.n = 0
    /\ clock = MaxClock
    /\ lastPlay.start = clock + Lead
    /\ Cardinality(scheduledSourcesRef) = 1

\* The scheduled buffers in the order of their start times.
First(S) == CHOOSE s \in S : \A p \in S : s.start <= p.start
Follows(p, s) == s.start = p.start + p.dur

\* Three messages were delivered, each one's buffer is scheduled (so none
\* carried an interruption and the cursor started from 0), and the clock has
\* stood still since the first was scheduled.
ThreeOnStaticClock ==
    /\ msgCount = 3
    /\ Cardinality(scheduledSourcesRef) = 3
    /\ pendingDecodes = {}
    /\ \/ First(scheduledSourcesRef).start = 0 /\ clock = 0
       \/ First(scheduledSourcesRef).start = clock + Lead

\* Every buffer but the first starts where another one ends, and no two start
\* together.
Contiguous(S) ==
    /\ \A s \in S : s = First(S) \/ \E p \in S : Follows(p, s)
    /\ \A s, p \in S : s # p => s.start # p.start

\* C14 as claimed: of three buffers scheduled on a static clock from cursor 0,
\* the second starts at d1 and the third at d1 + d2, each where the one before
\* ends.
C14_ContiguousFromZero ==
    ThreeOnStaticClock =>
        LET S  == scheduledSourcesRef
            s1 == First(S)
        IN  /\ Contiguous(S)
            /\ \E s2, s3 \in S :
                  /\ s2.start = s1.dur
                  /\ s3.start = s1.dur + s2.dur

\* C14 as amended: the first starts at 0 when the clock stands at 0 and one
\* lead after the clock otherwise; the second starts at that start plus d1 and
\* the third at that start plus d1 + d2, each where the one before ends.
C14_ContiguousFromFirstStart ==
    ThreeOnStaticClock =>
        LET S  == scheduledSourcesRef
            s1 == First(S)
        IN  /\ s1.start = IF clock = 0 THEN 0 ELSE clock + Lead
            /\ Contiguous(S)
            /\ \E s2, s3 \in S :
                  /\ s2.start = s1.start + s1.dur
                  /\ s3.start = s1.start + s1.dur + s2.dur
                  /\ nextStartTimeRef = s3.start + s3.dur

\* C14 witness: three buffers of durations 2, 1, 2 scheduled while the clock
\* stands at 1.
C14_Witness ==
    /\ ThreeOnStaticClock
    /\ clock = 1
    /\ \E s1, s2, s3 \in scheduledSourcesRef :
          /\ s1.start = 2 /\ s1.dur = 2
          /\ s2.start = 4 /\ s2.dur = 1
          /\ s3.start = 5 /\ s3.dur = 2

\* A handler whose message carries the interruption flag is suspended.
InterruptPending == \E h \in pendingDecodes : h.interrupted
Resumes(h) == DecodeRejected(h) \/ \E d \in Durations : DecodeResolved(h, d)

\* C15: while the interruption flag of a delivered message has not been
\* handled, no other handler runs: the only step of the page is the resumption
\* of a handler that carries the flag (the clock may advance).
C15_InterruptWithinTurn ==
    [][ InterruptPending =>
           \/ clock' # clock
           \/ \E h \in pendingDecodes : h.interrupted /\ Resumes(h) ]_vars

\* C16: a step that lowers the cursor handles an interruption or is a
\* teardown; a step that schedules a buffer starts it no earlier than the
\* cursor and leaves the cursor at the buffer's end.
C16_CursorMonotone ==
    [][ /\ nextStartTimeRef' < nextStartTimeRef =>
              /\ lastPlay' # lastPlay
              /\ lastPlay'.op \in {"interrupt", "stopAudio"}
        /\ StartStep =>
              /\ lastPlay'.start >= nextStartTimeRef
              /\ nextStartTimeRef' = lastPlay'.start + lastPlay'.dur ]_vars

\* C16 witness: an interruption at clock 0 has pulled the cursor back from the
\* end of a scheduled buffer.
C16_Witness ==
    /\ lastPlay.op = "interrupt"
    /\ lastPlay.prev = "start"
    /\ lastPlay.n >= 1
    /\ clock = 0
    /\ nextStartTimeRef = 0
    /\ outputAudioContextRef # 0

\* A step in which the decode of an audio message fails: atob throws in the
\* handler, or the awaited decode rejects.  intr is the message's
\* interruption flag.
SyncFailure(intr) ==
    /\ outputAudioContextRef # 0
    /\ \E a \in Attempts : OnMessage(a, Message(FALSE, <<>>, "invalid", intr))
AsyncFailure(intr) ==
    \E h \in pendingDecodes : h.interrupted = intr /\ DecodeRejected(h)
DecodeFailure(intr) == SyncFailure(intr) \/ AsyncFailure(intr)

\* The failure leaves the rest of the pipeline as it was: the session, the
\* output context and the other suspended handlers.
PipelineKept ==
    /\ session' = session
    /\ outputAudioContextRef' = outputAudioContextRef
    /\ \A h \in pendingDecodes' : \E g \in pendingDecodes : g.id = h.id
    /\ \A g \in pendingDecodes :
          (\E h \in pendingDecodes' : g.id = h.id) \/ AsyncFailure(g.interrupted)

\* C17 as claimed: a step in which a decode fails leaves the cursor, the
\* scheduled set, the connection state and the error message unchanged.
C17_FailureChangesNothing ==
    [][ (\E intr \in BOOLEAN : DecodeFailure(intr)) =>
           /\ UNCHANGED <<nextStartTimeRef, scheduledSourcesRef,
                          connectionState, errorMsg>>
           /\ PipelineKept ]_vars

\* C17 as amended: a step in which a decode fails leaves the connection state
\* and the error message unchanged, and the cursor and the scheduled set too
\* unless the message carries the interruption flag, which is then handled.
C17_FailureIsLocal ==
    [][ \A intr \in BOOLEAN :
           DecodeFailure(intr) =>
              /\ UNCHANGED <<connectionState, errorMsg>>
              /\ PipelineKept
              /\ IF intr
                 THEN /\ scheduledSourcesRef' = {}
                      /\ ~isModelSpeaking'
                      /\ outputAudioContextRef # 0 => nextStartTimeRef' = clock
                 ELSE UNCHANGED <<nextStartTimeRef, scheduledSourcesRef>> ]_vars

\* C17 witness: the decode of the first message failed and the buffer of the
\* second is scheduled.
C17_Witness ==
    /\ connectionState = CONNECTED
    /\ nAttempts = 1
    /\ msgCount = 2
    /\ pendingDecodes = {}
    /\ stoppedSources = 0
    /\ lastPlay.op = "start"
    /\ lastPlay.id = 2
    /\ lastPlay.prev = "none"
    /\ errorMsg = NoError
    /\ \E s \in scheduledSourcesRef : s.id = 2

\* The sessions that are open or being opened.
LiveSessions == {a \in Attempts : session[a].ws \in {"opening", "open"}}

\* C18: at most one remote session is open or being opened, and no connect
\* request is accepted while one is.
C18_SingleSession ==
    [][ /\ Cardinality(LiveSessions') <= 1
        /\ (ConnectToLiveAPI /\ nAttempts' # nAttempts) => LiveSessions = {} ]_vars

\* C19: in CONNECTED the microphone stream and the output context are held.
C19_ConnectedHoldsAudio ==
    connectionState = CONNECTED =>
        (mediaStreamRef # 0 /\ outputAudioContextRef # 0)

\* C20: in DISCONNECTED or ERROR with no acquisition pending, no microphone
\* stream is live.
C20_NoMicrophoneLeak ==
    (connectionState \in {DISCONNECTED, ERROR} /\ gumPending = {}) =>
        browser.streams = {}

\* C21: every tool response reaches the session that issued the call, and every
\* frame reaches the session of the attempt whose processor captured it.
C21_SessionConfinement ==
    /\ \A r \in toolResponses : r.to = r.from
    /\ \A f \in sentFrames : f.to = f.from

====
